---- MODULE Spec2Model ----
(***************************************************************************)
(* Model of commit_assistant.utils.hook_manager.HookManager: the text      *)
(* surgery that installs, migrates and updates the commit-assistant        *)
(* section of a prepare-commit-msg hook (plain git or husky).              *)
(*                                                                         *)
(* Texts are sequences of characters.  The long literals of the source are *)
(* abbreviated to short character sequences that keep what the code can    *)
(* observe of them: no literal contains a newline or a backslash, none is  *)
(* a substring of another, every one begins with "#", and the start and    *)
(* end markers also end with "#" (so that they can overlap a following     *)
(* literal exactly as "...###" can in the source).                         *)
(***************************************************************************)
EXTENDS Naturals, Sequences, FiniteSets, TLC

NL == "\n"
CR == "\r"
BS == "\\"
SP == " "

\* "### BEGIN: commit-assistant hook section (DO NOT REMOVE) ###"
COMMIT_ASSISTANT_MARKER_START == <<"#", "B", "#">>
\* "### END: commit-assistant hook section (DO NOT REMOVE) ###"
COMMIT_ASSISTANT_MARKER_END == <<"#", "E", "#">>
\* "# 以下內容由 commit-assistant 提供"
OLD_MARKER == <<"#", "O">>
\* "#!/bin/sh\n"
SHEBANG_LINE == <<"#", "!", NL>>
\* "# Original hook content\n"
ORIGINAL_COMMENT_LINE == <<"#", "c", NL>>

\* str.isspace() on the characters of the model
Whitespace == {NL, CR, SP}
\* the ASCII letters of the model; "g" abbreviates the group reference body
\* "g<0>" and is handled apart
AsciiLetters == {"x", "y", "n", "B", "E", "O", "c"}

-----------------------------------------------------------------------------
(* Python str operations *)

\* t[i:i+len(p)] == p  (1-based i)
MatchAt(t, p, i) ==
    /\ i >= 1
    /\ i + Len(p) - 1 <= Len(t)
    /\ \A k \in 1..Len(p) : t[i + k - 1] = p[k]

\* t.find(p, from): the least index >= from where p occurs, 0 when there is none
Find(t, p, from) ==
    LET hits == {i \in from..(Len(t) - Len(p) + 1) : MatchAt(t, p, i)}
    IN  IF hits = {} THEN 0 ELSE CHOOSE i \in hits : \A j \in hits : i <= j

\* p in t
Contains(t, p) == Find(t, p, 1) # 0

\* t[from:]  (1-based from)
Tail_(t, from) == SubSeq(t, from, Len(t))

\* t.replace(p, r) for a non-empty p
RECURSIVE ReplaceFrom(_, _, _, _)
ReplaceFrom(t, p, r, from) ==
    LET i == Find(t, p, from)
    IN  IF i = 0 THEN Tail_(t, from)
        ELSE SubSeq(t, from, i - 1) \o r \o ReplaceFrom(t, p, r, i + Len(p))

ReplaceAll(t, p, r) == ReplaceFrom(t, p, r, 1)

\* t.endswith(p)
EndsWith(t, p) == Len(t) >= Len(p) /\ MatchAt(t, p, Len(t) - Len(p) + 1)

\* t.rstrip()
RStrip(t) ==
    LET keep == {i \in 1..Len(t) : t[i] \notin Whitespace}
    IN  IF keep = {} THEN <<>>
        ELSE SubSeq(t, 1, CHOOSE i \in keep : \A j \in keep : j <= i)

\* t.lstrip()
LStrip(t) ==
    LET keep == {i \in 1..Len(t) : t[i] \notin Whitespace}
    IN  IF keep = {} THEN <<>>
        ELSE Tail_(t, CHOOSE i \in keep : \A j \in keep : i <= j)

\* t.strip()
Strip(t) == LStrip(RStrip(t))

-----------------------------------------------------------------------------
(* Path.read_text / write_text and open(): text mode with newline=None *)

\* reading translates "\r\n" and a lone "\r" to "\n" (universal newlines)
RECURSIVE read_text(_)
read_text(bytes) ==
    IF bytes = <<>> THEN <<>>
    ELSE IF Head(bytes) # CR THEN <<Head(bytes)>> \o read_text(Tail(bytes))
    ELSE IF Len(bytes) >= 2 /\ bytes[2] = NL THEN <<NL>> \o read_text(Tail_(bytes, 3))
    ELSE <<NL>> \o read_text(Tail(bytes))

\* os.linesep of a POSIX system
linesep == <<NL>>

\* writing translates "\n" to os.linesep
write_text(t) == ReplaceAll(t, <<NL>>, linesep)

-----------------------------------------------------------------------------
(* re.sub(pattern, repl, string, flags=re.DOTALL) with the pattern          *)
(* re.escape(START + "\n") + ".*?" + re.escape("\n" + END)                  *)

\* The replacement string is a template: re parses its backslash escapes
\* before it searches.  TemplateOk is FALSE where parse_template raises
\* re.error: a backslash before an ASCII letter that is no known escape.
\* (A final backslash cannot occur: the template ends with the end marker.)
RECURSIVE TemplateOkFrom(_, _)
TemplateOkFrom(repl, i) ==
    IF i > Len(repl) THEN TRUE
    ELSE IF repl[i] # BS THEN TemplateOkFrom(repl, i + 1)
    ELSE IF i = Len(repl) THEN FALSE
    ELSE IF repl[i + 1] \in AsciiLetters \ {"n"} THEN FALSE
    ELSE TemplateOkFrom(repl, i + 2)

TemplateOk(repl) == TemplateOkFrom(repl, 1)

\* The expansion of the template for one match m: "\\" gives one backslash,
\* "\n" a newline, "\g<0>" the whole match; a backslash before any other
\* character that is no ASCII letter stays as it is.
RECURSIVE ExpandFrom(_, _, _)
ExpandFrom(repl, i, m) ==
    IF i > Len(repl) THEN <<>>
    ELSE IF repl[i] # BS \/ i = Len(repl)
         THEN <<repl[i]>> \o ExpandFrom(repl, i + 1, m)
    ELSE IF repl[i + 1] = BS THEN <<BS>> \o ExpandFrom(repl, i + 2, m)
    ELSE IF repl[i + 1] = "n" THEN <<NL>> \o ExpandFrom(repl, i + 2, m)
    ELSE IF repl[i + 1] = "g" THEN m \o ExpandFrom(repl, i + 2, m)
    ELSE <<BS, repl[i + 1]>> \o ExpandFrom(repl, i + 2, m)

Expand(repl, m) == ExpandFrom(repl, 1, m)

\* The leftmost match at or after `from`: the first start_pattern, then the
\* first end_pattern after it (".*?" is lazy and, under DOTALL, crosses
\* newlines).  <<0, 0>> when there is none, else <<first index, last index>>.
MatchEnd(t, startp, endp, p) == Find(t, endp, p + Len(startp))

SearchFrom(t, startp, endp, from) ==
    LET p == Find(t, startp, from)
        q == IF p = 0 THEN 0 ELSE MatchEnd(t, startp, endp, p)
    IN  IF p = 0 \/ q = 0 THEN <<0, 0>> ELSE <<p, q + Len(endp) - 1>>

\* every non-overlapping match, left to right, replaced by the expanded repl
RECURSIVE SubFrom(_, _, _, _, _)
SubFrom(t, startp, endp, repl, from) ==
    LET m == SearchFrom(t, startp, endp, from)
    IN  IF m[1] = 0 THEN Tail_(t, from)
        ELSE SubSeq(t, from, m[1] - 1)
             \o Expand(repl, SubSeq(t, m[1], m[2]))
             \o SubFrom(t, startp, endp, repl, m[2] + 1)

re_sub(startp, endp, repl, t) == SubFrom(t, startp, endp, repl, 1)

-----------------------------------------------------------------------------
(* HookManager: the functions on texts *)

\* f"{START}\n{hook_content}\n{END}"
Block(c) ==
    COMMIT_ASSISTANT_MARKER_START \o <<NL>> \o c \o <<NL>> \o COMMIT_ASSISTANT_MARKER_END

\* HookVersion: NOT_INSTALLED = "none", OLD = "old", NEW = "new"
detect_old_first(content) ==
    IF Contains(content, OLD_MARKER) THEN "old"
    ELSE IF Contains(content, COMMIT_ASSISTANT_MARKER_START) THEN "new"
    ELSE "none"

_detect_hook_version(content) ==
    IF Contains(content, COMMIT_ASSISTANT_MARKER_START) THEN "new"
    ELSE IF Contains(content, OLD_MARKER) THEN "old"
    ELSE "none"

extract_without_strip(content) ==
    LET start_idx == Find(content, OLD_MARKER, 1)
        nl == IF start_idx = 0 THEN 0 ELSE Find(content, <<NL>>, start_idx)
    IN  IF start_idx = 0 THEN <<>>
        ELSE IF nl = 0 THEN <<>>
        ELSE Tail_(content, nl + 1)

_extract_old_hook_content(content) ==
    LET start_idx == Find(content, OLD_MARKER, 1)
        nl == IF start_idx = 0 THEN 0 ELSE Find(content, <<NL>>, start_idx)
    IN  IF start_idx = 0 THEN <<>>
        ELSE IF nl = 0 THEN <<>>
        ELSE Strip(Tail_(content, nl + 1))

migrate_keep_marker(content) ==
    LET start_idx == Find(content, OLD_MARKER, 1)
    IN  IF start_idx = 0 THEN content
        ELSE RStrip(SubSeq(content, 1, start_idx + Len(OLD_MARKER) - 1))
             \o <<NL, NL>> \o Block(_extract_old_hook_content(content)) \o <<NL>>

migrate_unguarded(content) ==
    LET start_idx == Find(content, OLD_MARKER, 1)
        prefix == IF start_idx = 0 THEN RStrip(SubSeq(content, 1, Len(content) - 1))
                  ELSE RStrip(SubSeq(content, 1, start_idx - 1))
    IN  prefix \o <<NL, NL>> \o Block(_extract_old_hook_content(content)) \o <<NL>>

migrate_keep_prefix(content) ==
    LET start_idx == Find(content, OLD_MARKER, 1)
    IN  IF start_idx = 0 THEN content
        ELSE SubSeq(content, 1, start_idx - 1)
             \o <<NL, NL>> \o Block(_extract_old_hook_content(content)) \o <<NL>>

_migrate_to_new_format(content) ==
    LET old_hook_content == _extract_old_hook_content(content)
        start_idx == Find(content, OLD_MARKER, 1)
        prefix == RStrip(SubSeq(content, 1, start_idx - 1))
    IN  IF start_idx = 0 THEN content
        ELSE prefix \o <<NL, NL>> \o Block(old_hook_content) \o <<NL>>

\* re.sub raises re.error on a bad escape of the replacement; the append
\* branch returns before re.sub is reached
replace_raises(current_content, new_hook_content) ==
    /\ Contains(current_content, COMMIT_ASSISTANT_MARKER_START)
    /\ ~TemplateOk(Block(new_hook_content))

replace_append_always_newline(current_content, new_hook_content) ==
    LET start_pattern == COMMIT_ASSISTANT_MARKER_START \o <<NL>>
        end_pattern == <<NL>> \o COMMIT_ASSISTANT_MARKER_END
        replacement == Block(new_hook_content)
    IN  IF ~Contains(current_content, COMMIT_ASSISTANT_MARKER_START)
        THEN current_content \o <<NL>> \o <<NL>> \o replacement \o <<NL>>
        ELSE re_sub(start_pattern, end_pattern, replacement, current_content)

_replace_commit_assistant_section(current_content, new_hook_content) ==
    LET start_pattern == COMMIT_ASSISTANT_MARKER_START \o <<NL>>
        end_pattern == <<NL>> \o COMMIT_ASSISTANT_MARKER_END
        replacement == Block(new_hook_content)
    IN  IF ~Contains(current_content, COMMIT_ASSISTANT_MARKER_START)
        THEN (IF EndsWith(current_content, <<NL>>)
              THEN current_content ELSE current_content \o <<NL>>)
             \o <<NL>> \o replacement \o <<NL>>
        ELSE re_sub(start_pattern, end_pattern, replacement, current_content)

-----------------------------------------------------------------------------
(* The files.  A file is absent, or has a text and permission bits. *)

NoFile == [exists |-> FALSE, text |-> <<>>, mode |-> "none"]
FileOf(t, m) == [exists |-> TRUE, text |-> t, mode |-> m]

\* hook_file.chmod(0o755) / self.hook_path.chmod(0o755)
MODE_EXEC == "0755"
\* the bits of a file the user created without making it executable
MODE_PLAIN == "0644"

\* _inject_hooks reads self.hook_path: `hook` is that file
_inject_hooks(hook, hook_template_content) ==
    LET current_content == read_text(hook.text)
    IN  IF ~hook.exists
        THEN SHEBANG_LINE \o <<NL>> \o Block(hook_template_content) \o <<NL>>
        ELSE IF Contains(current_content, COMMIT_ASSISTANT_MARKER_START)
        THEN current_content
        ELSE SHEBANG_LINE \o <<NL>> \o ORIGINAL_COMMENT_LINE
             \o ReplaceAll(current_content, SHEBANG_LINE, <<>>)
             \o <<NL>> \o Block(hook_template_content) \o <<NL>>

-----------------------------------------------------------------------------
(* The state *)

VARIABLES
    husky_dir,      \* <repo>/.husky exists
    package_json,   \* <repo>/package.json: absent, unreadable, or what
                    \* json.load makes of it
    git_hook,       \* <repo>/.git/hooks/prepare-commit-msg
    husky_hook,     \* <repo>/.husky/prepare-commit-msg
    backups,        \* the backup files: timestamp -> text
    now,            \* the last timestamp datetime.now() returned
    last,           \* the last call: its name, argument and outcome, and the
                    \* target hook file as it was before the call
    n_ops,          \* the number of calls made
    origin,         \* the target hook file as it was before the first call
    fn,             \* the last call of a function on texts (SpecFn)
    detected,       \* the last call of _detect_husky (SpecHusky)
    batch,          \* a run of the update command (SpecBatch)
    cmd,            \* a run of the commit command (SpecCommit)
    race,           \* two processes in add_installation (SpecRace)
    conf,           \* a process that calls load_config (SpecConfig)
    registry        \* the installation registry and the directories on disk
                    \* (SpecRegistry)

vars == <<husky_dir, package_json, git_hook, husky_hook, backups, now, last,
          n_ops, origin, fn, detected, batch, cmd, registry, conf, race>>

\* the variables of the hook files of one repository
hook_vars == <<husky_dir, package_json, git_hook, husky_hook, backups, now, last,
               n_ops, origin>>

\* the filesystem as the handlers see it; `raised` and `copied` are the
\* outcome of the running call
Fs == [husky_dir |-> husky_dir, package_json |-> package_json,
       git_hook |-> git_hook, husky_hook |-> husky_hook,
       backups |-> backups, now |-> now, raised |-> FALSE, copied |-> FALSE]

\* shutil.copy2(src, dst): dst is created, or overwritten when it exists
Put(f, k, v) == [x \in (DOMAIN f) \cup {k} |-> IF x = k THEN v ELSE f[x]]

\* the package name "husky"; a name or a JSON string is a sequence of pieces
\* of text, the piece "husky" standing for its five letters
HUSKY == <<"husky">>

\* JSON values as json.load returns them: dict (its keys), list (its items),
\* str, None, int
JObject(keys) == [t |-> "object", names |-> keys, text |-> <<>>]
JArray(items) == [t |-> "array", names |-> items, text |-> <<>>]
JString(str) == [t |-> "string", names |-> {}, text |-> str]
JNull == [t |-> "null", names |-> {}, text |-> <<>>]
JNumber == [t |-> "number", names |-> {}, text |-> <<>>]

\* package.json: no such file; a file open() cannot read; a file that is no
\* JSON; a JSON document that is no object; an object, with or without the
\* member devDependencies
PkgAbsent == [kind |-> "absent", has_dev |-> FALSE, dev |-> JNull]
PkgUnreadable == [kind |-> "unreadable", has_dev |-> FALSE, dev |-> JNull]
PkgMalformed == [kind |-> "malformed", has_dev |-> FALSE, dev |-> JNull]
PkgNotObject == [kind |-> "not_object", has_dev |-> FALSE, dev |-> JNull]
PkgObject(has_dev, dev) == [kind |-> "object", has_dev |-> has_dev, dev |-> dev]
PkgHusky == PkgObject(TRUE, JObject({HUSKY}))

\* item in container: TypeError for None and int
contains_raises(container) == container.t \in {"null", "number"}
contains(item, container) ==
    CASE container.t = "object" -> item \in container.names
      [] container.t = "array" -> item \in container.names
      [] container.t = "string" -> Contains(container.text, item)
      [] OTHER -> FALSE

\* the body of the try statement raises: open() fails, json.load fails, the
\* document has no method get, or `in` has no meaning for devDependencies
package_json_raises(pj) ==
    \/ pj.kind \in {"unreadable", "malformed", "not_object"}
    \/ pj.kind = "object" /\ pj.has_dev /\ contains_raises(pj.dev)

_detect_husky(s) ==
    LET pj == s.package_json
        devDependencies == IF pj.has_dev THEN pj.dev ELSE JObject({})
    IN  IF s.husky_dir THEN TRUE
        ELSE IF pj.kind = "absent" THEN FALSE
        ELSE IF package_json_raises(pj) THEN FALSE
        ELSE contains(HUSKY, devDependencies)

\* t is the second datetime.now() falls in
_backup_existing_hook(s, t) ==
    IF s.git_hook.exists
    THEN [s EXCEPT !.backups = Put(s.backups, t, s.git_hook.text),
                   !.now = t, !.copied = TRUE]
    ELSE s

_install_hook_husky(s, hook_content) ==
    LET made == [s EXCEPT !.husky_dir = TRUE]
        full_hook_content == Block(hook_content)
        current_content == read_text(s.husky_hook.text)
    IN  IF s.husky_hook.exists
        THEN IF Contains(current_content, COMMIT_ASSISTANT_MARKER_START)
             THEN made
             ELSE [made EXCEPT !.husky_hook =
                      FileOf(s.husky_hook.text
                             \o write_text(<<NL>> \o full_hook_content \o <<NL>>),
                             MODE_EXEC)]
        ELSE [made EXCEPT !.husky_hook =
                 FileOf(write_text(full_hook_content \o <<NL>>), MODE_EXEC)]

install_hook_no_chmod(s, hook_content, t) ==
    IF _detect_husky(s)
    THEN _install_hook_husky(s, hook_content)
    ELSE LET saved == _backup_existing_hook(s, t)
         IN  [saved EXCEPT !.git_hook =
                 FileOf(write_text(_inject_hooks(s.git_hook, hook_content)),
                        IF s.git_hook.exists THEN s.git_hook.mode ELSE MODE_PLAIN)]

install_hook(s, hook_content, t) ==
    IF _detect_husky(s)
    THEN _install_hook_husky(s, hook_content)
    ELSE LET saved == _backup_existing_hook(s, t)
         IN  [saved EXCEPT !.git_hook =
                 FileOf(write_text(_inject_hooks(s.git_hook, hook_content)),
                        MODE_EXEC)]

update_git_requires_file(s, new_hook_content, t) ==
    LET read == read_text(s.git_hook.text)
        version == _detect_hook_version(read)
        current_content == IF version = "old"
                           THEN _migrate_to_new_format(read)
                           ELSE read
        updated_content ==
            _replace_commit_assistant_section(current_content, new_hook_content)
    IN  IF ~s.git_hook.exists \/ replace_raises(current_content, new_hook_content)
        THEN [s EXCEPT !.raised = TRUE]
        ELSE IF updated_content # current_content
        THEN [_backup_existing_hook(s, t) EXCEPT
                 !.git_hook = FileOf(write_text(updated_content), MODE_EXEC)]
        ELSE s

_update_git_hook_with_version(s, new_hook_content, t) ==
    LET read == read_text(s.git_hook.text)
        version == _detect_hook_version(read)
        current_content == IF version = "old"
                           THEN _migrate_to_new_format(read)
                           ELSE read
        updated_content ==
            _replace_commit_assistant_section(current_content, new_hook_content)
    IN  IF ~s.git_hook.exists THEN install_hook(s, new_hook_content, t)
        ELSE IF replace_raises(current_content, new_hook_content)
        THEN [s EXCEPT !.raised = TRUE]
        ELSE IF updated_content # current_content
        THEN [_backup_existing_hook(s, t) EXCEPT
                 !.git_hook = FileOf(write_text(updated_content), MODE_EXEC)]
        ELSE s

_update_husky_hook_with_version(s, new_hook_content) ==
    LET read == read_text(s.husky_hook.text)
        version == _detect_hook_version(read)
        current_content == IF version = "old"
                           THEN _migrate_to_new_format(read)
                           ELSE read
        updated_content ==
            _replace_commit_assistant_section(current_content, new_hook_content)
    IN  IF ~s.husky_hook.exists THEN _install_hook_husky(s, new_hook_content)
        ELSE IF replace_raises(current_content, new_hook_content)
        THEN [s EXCEPT !.raised = TRUE]
        ELSE IF updated_content # current_content
        THEN [s EXCEPT !.husky_hook =
                 FileOf(write_text(updated_content), MODE_EXEC)]
        ELSE s

update_hook(s, new_hook_content, t) ==
    IF _detect_husky(s)
    THEN _update_husky_hook_with_version(s, new_hook_content)
    ELSE _update_git_hook_with_version(s, new_hook_content, t)

\* the hook file install_hook and update_hook work on
Target(s) == IF _detect_husky(s) THEN s.husky_hook ELSE s.git_hook

-----------------------------------------------------------------------------
(* The inputs *)

\* the longest run of segments of a freely composed hook text
MaxSegs == 2
\* the number of install_hook / update_hook calls of a behaviour
MaxOps == 2

Segments == {COMMIT_ASSISTANT_MARKER_START, COMMIT_ASSISTANT_MARKER_END,
             OLD_MARKER, SHEBANG_LINE, <<NL>>, <<"x">>}

\* the texts made of at most n segments of S
RECURSIVE SegTextsOver(_, _)
SegTextsOver(S, n) ==
    IF n = 0 THEN {<<>>}
    ELSE LET shorter == SegTextsOver(S, n - 1)
         IN  shorter \cup {t \o g : t \in shorter, g \in S}

SegTexts(n) == SegTextsOver(Segments, n)

\* what install_hook and update_hook are given: a plain content and contents
\* with a backslash (an escaped backslash, a bad escape, a group reference)
Contents == {<<"x">>, <<BS, BS>>, <<BS, "x">>, <<BS, "g">>}

\* payloads of the sections a hook file starts with
Payloads == {<<"x">>, <<"y">>, <<BS, BS>>}

\* the user's text before and after a section
Before == {<<>>, SHEBANG_LINE, <<"x", NL>>}
After == {<<>>, <<NL>>, <<NL, "x", NL>>}

\* a well-formed managed region between user text
RegionTexts ==
    {pre \o Block(p) \o post : pre \in Before, post \in After, p \in Payloads}

\* a legacy section after user text
LegacyTexts ==
    {pre \o OLD_MARKER \o <<NL>> \o p \o post :
        pre \in Before, post \in After, p \in Payloads}

\* a marker literal with a shebang line in its middle
SplitTexts ==
    {SubSeq(m, 1, k) \o SHEBANG_LINE \o Tail_(m, k + 1) :
        m \in {COMMIT_ASSISTANT_MARKER_START, COMMIT_ASSISTANT_MARKER_END},
        k \in 1..2}

\* texts with carriage returns: CRLF line ends and a lone CR, around a
\* region, in a legacy section and in a shebang line
CrTexts ==
    {<<"x", CR, NL>> \o Block(<<"x">>) \o <<CR, NL>>,
     Block(<<"x">>) \o <<NL, "x", CR>>,
     <<"#", "!", CR, NL, "x", CR, NL>>,
     <<"x", CR, NL>> \o OLD_MARKER \o <<CR, NL, "x", CR, NL>>}

\* user hooks with a shebang line that is not the line "#!/bin/sh\n": another
\* interpreter line, and the shebang at the end of a file without a newline
ShebangTexts ==
    {<<"#", "!", "x", NL, "x", NL>>, <<"x", NL, "#", "!">>}

HookTexts ==
    SegTexts(MaxSegs) \cup RegionTexts \cup LegacyTexts \cup SplitTexts \cup CrTexts
        \cup ShebangTexts

NoCall == [op |-> "none", arg |-> <<>>, raised |-> FALSE, copied |-> FALSE,
           before |-> NoFile]
NoFn == [op |-> "none", in |-> <<>>, arg |-> <<>>, out |-> <<>>]
\* a run of the update command before it starts: its option --all-repo, the
\* list get_all_installations returns (for --repo-path: the one repository),
\* the position in that list, the repositories update() was called on, the
\* positions where it raised, the repositories add_installation was called
\* on, and the exit code (none while running)
Batch(all_repo, installations) ==
    [all_repo |-> all_repo, installations |-> installations, pc |-> "start",
     i |-> 1, attempted |-> <<>>, failed |-> {}, refreshed |-> <<>>,
     exit_code |-> <<>>]
NoBatch == Batch(FALSE, <<>>)

\* a run of the commit command: the place it has reached, the value of
\* ENABLE_COMMIT_ASSISTANT, the rounds of the edit loop made, whether the user
\* pressed Ctrl+C, what ended the run, and the exit code (none while running)
Cmd(enable) ==
    [pc |-> "load_config", enable |-> enable, edits |-> 0, ctrl_c |-> FALSE,
     cause |-> "none", exit_code |-> <<>>]
NoCmd == [Cmd("true") EXCEPT !.pc = "idle"]

\* the registry file (absent, unparsable, or valid with its records in file
\* order), the directories that exist, the clock, the last query and its
\* result, and for each normalized path the last add or remove made on it
NoQuery == [op |-> "none", arg |-> <<>>, out |-> <<>>]
Registry(file, disk) ==
    [file |-> file, records |-> <<>>, disk |-> disk, clock |-> 0,
     query |-> NoQuery, last_op |-> <<>>]
NoRegistry == Registry("absent", {})

NoDetect == [called |-> FALSE, value |-> FALSE, husky_dir |-> FALSE,
             package_json |-> PkgAbsent]

\* the processes that call add_installation at the same time
Procs == {"p1", "p2"}

\* two processes and the registry file they share: for each process the
\* place it has reached in add_installation, its argument, the dict it read
\* and the number of saves made before it read; the processes in the order
\* of their saves
Race(reg, repo_paths) ==
    [reg |-> reg,
     procs |-> [p \in Procs |->
                  [pc |-> "read", repo_path |-> repo_paths[p],
                   installation_info |-> <<>>, seen |-> 0]],
     saved |-> <<>>]
NoRace == [Race(NoRegistry, [p \in Procs |-> <<>>]) EXCEPT
              !.procs = [p \in Procs |-> [@[p] EXCEPT !.pc = "idle"]]]

\* the repositories load_config is called on, and a project config file
\* that does not exist
Repos == {"repo_a", "repo_b"}

NoConfigFile == [exists |-> FALSE, lines |-> <<>>]

\* a process: os.environ, os.environ as the process started, the file .env,
\* the project config file of each repository, the number of load_config
\* calls made and the repository of the last one
Conf(environ, dotenv, files) ==
    [environ |-> environ, started |-> environ, dotenv |-> dotenv,
     files |-> files, calls |-> 0, repo_root |-> ""]
NoConf == Conf(<<>>, <<>>, [r \in Repos |-> NoConfigFile])

\* the repositories: plain git, husky by its directory, husky by package.json
\* alone (then there is no .husky directory and so no husky hook file)
Init ==
    /\ package_json \in {PkgAbsent, PkgHusky}
    /\ husky_dir \in BOOLEAN
    /\ package_json = PkgHusky => ~husky_dir
    /\ \E t \in HookTexts, e \in BOOLEAN :
          LET f == IF e THEN FileOf(t, MODE_PLAIN) ELSE NoFile
          IN  /\ ~e => t = <<>>
              /\ git_hook = (IF husky_dir \/ package_json = PkgHusky THEN NoFile ELSE f)
              /\ husky_hook = (IF husky_dir THEN f ELSE NoFile)
              /\ (package_json = PkgHusky => ~e)
    /\ backups = <<>>
    /\ now = 0
    /\ last = NoCall
    /\ n_ops = 0
    /\ race = NoRace
    /\ conf = NoConf
    /\ origin = Target(Fs)
    /\ fn = NoFn
    /\ detected = NoDetect
    /\ batch = NoBatch
    /\ cmd = NoCmd
    /\ registry = NoRegistry

Commit(s, op, c) ==
    /\ husky_dir' = s.husky_dir
    /\ git_hook' = s.git_hook
    /\ husky_hook' = s.husky_hook
    /\ backups' = s.backups
    /\ now' = s.now
    /\ last' = [op |-> op, arg |-> c, raised |-> s.raised, copied |-> s.copied,
                before |-> Target(Fs)]
    /\ n_ops' = n_ops + 1
    /\ UNCHANGED <<package_json, origin, fn, detected, batch, cmd, registry, conf, race>>

Install ==
    /\ n_ops < MaxOps
    /\ \E c \in Contents, t \in {now, now + 1} :
          Commit(install_hook(Fs, c, t), "install", c)

Update ==
    /\ n_ops < MaxOps
    /\ \E c \in Contents, t \in {now, now + 1} :
          Commit(update_hook(Fs, c, t), "update", c)

Next == Install \/ Update

Spec == Init /\ [][Next]_vars

-----------------------------------------------------------------------------
(* The functions on texts, each applied to a text drawn from FnTexts *)

FnSegments == Segments \cup {<<SP>>}

FnTexts == SegTextsOver(FnSegments, MaxSegs + 2) \cup RegionTexts \cup LegacyTexts

FnInit ==
    /\ package_json = PkgAbsent
    /\ husky_dir = FALSE
    /\ git_hook = NoFile
    /\ husky_hook = NoFile
    /\ backups = <<>>
    /\ now = 0
    /\ last = NoCall
    /\ n_ops = 0
    /\ race = NoRace
    /\ conf = NoConf
    /\ origin = NoFile
    /\ \E t \in FnTexts : fn = [op |-> "none", in |-> t, arg |-> <<>>, out |-> <<>>]
    /\ detected = NoDetect
    /\ batch = NoBatch
    /\ cmd = NoCmd
    /\ registry = NoRegistry

Apply(op, c, result) ==
    /\ fn.op = "none"
    /\ fn' = [op |-> op, in |-> fn.in, arg |-> c, out |-> result]
    /\ UNCHANGED <<hook_vars, detected, batch, cmd, registry, conf, race>>

Detect == Apply("detect", <<>>, <<_detect_hook_version(fn.in)>>)

Extract == Apply("extract", <<>>, _extract_old_hook_content(fn.in))

Migrate == Apply("migrate", <<>>, _migrate_to_new_format(fn.in))

Replace ==
    \E c \in Contents :
        /\ ~replace_raises(fn.in, c)
        /\ Apply("replace", c, _replace_commit_assistant_section(fn.in, c))

FnNext == Detect \/ Extract \/ Migrate \/ Replace

SpecFn == FnInit /\ [][FnNext]_vars

-----------------------------------------------------------------------------
(* _detect_husky on a repository with any package.json *)

\* package names and JSON strings
PackageNames == {HUSKY, <<"lint">>, <<"husky", "-init">>}
JsonStrings == {<<"lint">>, <<"husky", "-init">>, <<"eslint-plugin-", "husky">>}

DevDependencies ==
    {JObject(k) : k \in SUBSET PackageNames}
    \cup {JArray(k) : k \in SUBSET PackageNames}
    \cup {JString(str) : str \in JsonStrings}
    \cup {JNull, JNumber}

PackageJsons ==
    {PkgAbsent, PkgUnreadable, PkgMalformed, PkgNotObject, PkgObject(FALSE, JNull)}
    \cup {PkgObject(TRUE, d) : d \in DevDependencies}

HuskyInit ==
    /\ package_json \in PackageJsons
    /\ husky_dir \in BOOLEAN
    /\ git_hook = NoFile
    /\ husky_hook = NoFile
    /\ backups = <<>>
    /\ now = 0
    /\ last = NoCall
    /\ n_ops = 0
    /\ race = NoRace
    /\ conf = NoConf
    /\ origin = NoFile
    /\ fn = NoFn
    /\ detected = NoDetect
    /\ batch = NoBatch
    /\ cmd = NoCmd
    /\ registry = NoRegistry

DetectHusky ==
    /\ ~detected.called
    /\ detected' = [called |-> TRUE, value |-> _detect_husky(Fs),
                    husky_dir |-> husky_dir, package_json |-> package_json]
    /\ UNCHANGED <<husky_dir, package_json, git_hook, husky_hook, backups, now,
                   last, n_ops, origin, fn, batch, cmd, registry, conf, race>>

HuskyNext == DetectHusky

SpecHusky == HuskyInit /\ [][HuskyNext]_vars

-----------------------------------------------------------------------------
(* The update command: update --all-repo and update --repo-path *)

\* the number of repositories of the registry
MaxRepos == 3

\* the lists of at most n distinct repositories
RECURSIVE RepoLists(_)
RepoLists(n) ==
    IF n = 0 THEN {<<>>}
    ELSE LET shorter == RepoLists(n - 1)
         IN  shorter \cup {Append(l, r) : l \in shorter, r \in 1..MaxRepos}

Distinct(l) == \A a, b \in 1..Len(l) : l[a] = l[b] => a = b

BatchInit ==
    /\ package_json = PkgAbsent
    /\ husky_dir = FALSE
    /\ git_hook = NoFile
    /\ husky_hook = NoFile
    /\ backups = <<>>
    /\ now = 0
    /\ last = NoCall
    /\ n_ops = 0
    /\ race = NoRace
    /\ conf = NoConf
    /\ origin = NoFile
    /\ fn = NoFn
    /\ detected = NoDetect
    /\ cmd = NoCmd
    /\ registry = NoRegistry
    /\ \/ \E l \in RepoLists(MaxRepos) : Distinct(l) /\ batch = Batch(TRUE, l)
       \/ \E r \in 1..MaxRepos : batch = Batch(FALSE, <<r>>)

BatchStep(b) ==
    /\ batch' = b
    /\ UNCHANGED <<hook_vars, fn, detected, cmd, registry, conf, race>>

\* sys.exit(code)
Exit(b, code) == [b EXCEPT !.pc = "done", !.exit_code = <<code>>]

\* _update_all_repos up to its loop: with no installation it returns
_update_all_repos_begin ==
    /\ batch.pc = "start"
    /\ batch.all_repo
    /\ BatchStep([batch EXCEPT !.pc = IF batch.installations = <<>>
                                      THEN "returned" ELSE "loop"])

iterate_break_on_error(b, raises) ==
    LET repo_path == b.installations[b.i]
        tried == [b EXCEPT !.attempted = Append(@, repo_path)]
    IN  IF raises
        THEN [tried EXCEPT !.failed = @ \cup {b.i}, !.pc = "returned"]
        ELSE [tried EXCEPT !.refreshed = Append(@, repo_path), !.i = @ + 1]

\* one iteration of the loop: update() raises an Exception (caught: continue)
\* or returns (then add_installation)
iterate(b, raises) ==
    LET repo_path == b.installations[b.i]
        tried == [b EXCEPT !.attempted = Append(@, repo_path), !.i = @ + 1]
    IN  IF raises
        THEN [tried EXCEPT !.failed = @ \cup {b.i}]
        ELSE [tried EXCEPT !.refreshed = Append(@, repo_path)]

_update_all_repos_iterate ==
    /\ batch.pc = "loop"
    /\ batch.i <= Len(batch.installations)
    /\ \E raises \in BOOLEAN : BatchStep(iterate(batch, raises))

\* _update_all_repos returns and update calls sys.exit(0)
_update_all_repos_end ==
    /\ \/ batch.pc = "returned"
       \/ batch.pc = "loop" /\ batch.i > Len(batch.installations)
    /\ BatchStep(Exit(batch, 0))

\* update --repo-path: _update, then sys.exit(0); an Exception of
\* update_manager.update() reaches the handler of update: sys.exit(1)
_update ==
    /\ batch.pc = "start"
    /\ ~batch.all_repo
    /\ \E raises \in BOOLEAN :
          LET repo_path == batch.installations[1]
              tried == [batch EXCEPT !.attempted = <<repo_path>>]
          IN  BatchStep(IF raises
                        THEN Exit([tried EXCEPT !.failed = {1}], 1)
                        ELSE Exit([tried EXCEPT !.refreshed = <<repo_path>>], 0))

BatchNext ==
    \/ _update_all_repos_begin
    \/ _update_all_repos_iterate
    \/ _update_all_repos_end
    \/ _update

SpecBatch == BatchInit /\ [][BatchNext]_vars

-----------------------------------------------------------------------------
(* The commit command *)

\* ExitCode
SUCCESS == 0
CANCEL == 1
ERROR == 2

\* UserChoices
USE_AI_MESSAGE == "use"
EDIT_AI_MESSAGE == "edit"
CANCEL_OPERATION == "cancel"

\* the rounds of the edit loop of edit_commit_message
MaxEdits == 2

\* values of the environment variable ENABLE_COMMIT_ASSISTANT
EnableValues == {"true", "True", "TRUE", "false", "False", "0"}

\* str.lower() on these values
lower(v) ==
    IF v \in {"True", "TRUE"} THEN "true"
    ELSE IF v = "False" THEN "false"
    ELSE v

\* how a call ends: it returns, or raises an Exception or a KeyboardInterrupt
\* (Ctrl+C)
Raises == {"Exception", "KeyboardInterrupt"}
Outcomes == {"ok"} \cup Raises

CommitInit ==
    /\ package_json = PkgAbsent
    /\ husky_dir = FALSE
    /\ git_hook = NoFile
    /\ husky_hook = NoFile
    /\ backups = <<>>
    /\ now = 0
    /\ last = NoCall
    /\ n_ops = 0
    /\ race = NoRace
    /\ conf = NoConf
    /\ origin = NoFile
    /\ fn = NoFn
    /\ detected = NoDetect
    /\ batch = NoBatch
    /\ registry = NoRegistry
    /\ \E v \in EnableValues : cmd = Cmd(v)

CmdStep(c) ==
    /\ cmd' = c
    /\ UNCHANGED <<hook_vars, fn, detected, batch, registry, conf, race>>

\* sys.exit(code), after the event `cause`
Done(c, cause, code) ==
    [c EXCEPT !.pc = "done", !.cause = cause, !.exit_code = <<code>>]

\* the except clauses of commit
commit_except(c, kind) ==
    IF kind = "KeyboardInterrupt"
    THEN Done([c EXCEPT !.ctrl_c = TRUE], "interrupt", CANCEL)
    ELSE Done(c, "exception", ERROR)

\* the except clause of update_commit_message: an Exception is caught and
\* ERROR returned, which commit hands to sys.exit; a KeyboardInterrupt is no
\* Exception and reaches the except clauses of commit
update_commit_message_except(c, kind) ==
    IF kind = "Exception" THEN Done(c, "exception", ERROR)
    ELSE commit_except(c, kind)

\* load_config, then the test of ENABLE_COMMIT_ASSISTANT
commit_load_config ==
    /\ cmd.pc = "load_config"
    /\ \E o \in Outcomes :
          CmdStep(IF o \in Raises THEN commit_except(cmd, o)
                  ELSE IF lower(cmd.enable) # "true"
                  THEN Done(cmd, "disabled", SUCCESS)
                  ELSE [cmd EXCEPT !.pc = "GitCommandRunner"])

\* the calls of commit whose result is not examined, and the call after each
AfterCall ==
    [GitCommandRunner |-> "get_staged_files",
     get_staged_diff |-> "EnhancedCommitGenerator",
     EnhancedCommitGenerator |-> "generate_structured_message",
     response_text |-> "display_ai_message"]

commit_call ==
    /\ cmd.pc \in DOMAIN AfterCall
    /\ \E o \in Outcomes :
          CmdStep(IF o \in Raises THEN commit_except(cmd, o)
                  ELSE [cmd EXCEPT !.pc = AfterCall[cmd.pc]])

commit_get_staged_files ==
    /\ cmd.pc = "get_staged_files"
    /\ \E o \in Outcomes, changed_files \in {<<>>, <<"a.py">>} :
          CmdStep(IF o \in Raises THEN commit_except(cmd, o)
                  ELSE IF changed_files = <<>>
                  THEN Done(cmd, "no_staged_files", CANCEL)
                  ELSE [cmd EXCEPT !.pc = "get_staged_diff"])

\* generate_structured_message returns a response, or None when
\* generate_content raised; get_prompt raises outside its try
commit_generate ==
    /\ cmd.pc = "generate_structured_message"
    /\ \E o \in Outcomes, response \in {"None", "response"} :
          CmdStep(IF o \in Raises THEN commit_except(cmd, o)
                  ELSE IF response = "None"
                  THEN Done(cmd, "no_response", ERROR)
                  ELSE [cmd EXCEPT !.pc = "response_text"])

update_commit_message_display ==
    /\ cmd.pc = "display_ai_message"
    /\ \E o \in Outcomes :
          CmdStep(IF o \in Raises THEN update_commit_message_except(cmd, o)
                  ELSE [cmd EXCEPT !.pc = "get_user_choice"])

\* get_user_choice returns one of the three choices (it asks again after an
\* invalid selection); EOFError is an Exception
update_commit_message_choice ==
    /\ cmd.pc = "get_user_choice"
    /\ \E o \in Outcomes,
          choice \in {USE_AI_MESSAGE, EDIT_AI_MESSAGE, CANCEL_OPERATION} :
          CmdStep(IF o \in Raises THEN update_commit_message_except(cmd, o)
                  ELSE IF choice = CANCEL_OPERATION
                  THEN Done(cmd, "cancel_operation", CANCEL)
                  ELSE IF choice = USE_AI_MESSAGE
                  THEN [cmd EXCEPT !.pc = "write_ai_message"]
                  ELSE [cmd EXCEPT !.pc = "questionary_text"])

\* questionary.text(...).ask(): the message, or None after Ctrl+C
edit_commit_message_text ==
    /\ cmd.pc = "questionary_text"
    /\ \E o \in Outcomes, message \in {"None", "message"} :
          CmdStep(IF o \in Raises THEN update_commit_message_except(cmd, o)
                  ELSE IF message = "None"
                  THEN Done([cmd EXCEPT !.ctrl_c = TRUE], "edit_aborted", CANCEL)
                  ELSE [cmd EXCEPT !.pc = "questionary_confirm"])

\* questionary.confirm(...).ask(): True, False, or None after Ctrl+C; what is
\* not true starts the next round of the loop
edit_commit_message_confirm ==
    /\ cmd.pc = "questionary_confirm"
    /\ \E o \in Outcomes, answer \in {"True", "False", "None"} :
          /\ (o = "ok" /\ answer # "True") => cmd.edits < MaxEdits
          /\ CmdStep(IF o \in Raises THEN update_commit_message_except(cmd, o)
                     ELSE IF answer = "True"
                     THEN [cmd EXCEPT !.pc = "write_edited_message"]
                     ELSE [cmd EXCEPT !.pc = "questionary_text",
                                      !.edits = @ + 1,
                                      !.ctrl_c = @ \/ answer = "None"])

\* the commit message file is written and SUCCESS returned
update_commit_message_write ==
    /\ cmd.pc \in {"write_ai_message", "write_edited_message"}
    /\ \E o \in Outcomes :
          CmdStep(IF o \in Raises THEN update_commit_message_except(cmd, o)
                  ELSE Done(cmd, IF cmd.pc = "write_ai_message"
                                 THEN "accepted" ELSE "edited", SUCCESS))

CommitNext ==
    \/ commit_load_config
    \/ commit_call
    \/ commit_get_staged_files
    \/ commit_generate
    \/ update_commit_message_display
    \/ update_commit_message_choice
    \/ edit_commit_message_text
    \/ edit_commit_message_confirm
    \/ update_commit_message_write

SpecCommit == CommitInit /\ [][CommitNext]_vars

-----------------------------------------------------------------------------
(* InstallationManager: the registry of installations *)

\* the number of add_installation and remove_installation calls and of
\* changes of the directories
MaxRegOps == 3

SLASH == "/"
\* ProjectInfo.VERSION
VERSION == "0.1.9"

\* A path is the sequence of its components below the root, a component a
\* sequence of characters; "." and ".." are components.
DOT == <<".">>
DOTDOT == <<".", ".">>

\* Path.resolve(): "." is dropped and ".." removes the component before it
\* (there are no symbolic links)
RECURSIVE resolve_from(_, _, _)
resolve_from(path, i, done) ==
    IF i > Len(path) THEN done
    ELSE IF path[i] = DOT THEN resolve_from(path, i + 1, done)
    ELSE IF path[i] = DOTDOT
    THEN resolve_from(path, i + 1,
                      IF done = <<>> THEN <<>> ELSE SubSeq(done, 1, Len(done) - 1))
    ELSE resolve_from(path, i + 1, Append(done, path[i]))

resolve(path) == resolve_from(path, 1, <<>>)

\* str(path) of an absolute POSIX path
RECURSIVE str(_)
str(path) ==
    IF path = <<>> THEN <<>> ELSE <<SLASH>> \o Head(path) \o str(Tail(path))

_normalize_path(path) == ReplaceAll(str(resolve(path)), <<BS>>, <<SLASH>>)

\* hashlib.md5(normalized_path.encode()).hexdigest()
_generate_installation_id(repo_path) == <<"md5", _normalize_path(repo_path)>>

\* the installations of the file: none when the file is missing or when
\* tomli.loads raises
_read_installations(r) == IF r.file = "valid" THEN r.records ELSE <<>>

_save_installations(r, installations) ==
    [r EXCEPT !.file = "valid", !.records = installations]

\* the positions of the key in the dict
KeyAt(installations, id) == {i \in 1..Len(installations) : installations[i].id = id}

\* d[key] = value: a new key goes last, a known key keeps its place
SetItem(installations, rec) ==
    LET at == KeyAt(installations, rec.id)
    IN  IF at = {} THEN Append(installations, rec)
        ELSE [i \in 1..Len(installations) |->
                 IF i \in at THEN rec ELSE installations[i]]

\* del d[key]
DelItem(installations, id) == SelectSeq(installations, LAMBDA rec : rec.id # id)

add_installation_append(r, repo_path) ==
    LET installation == [id |-> _generate_installation_id(repo_path),
                         repo_path |-> _normalize_path(repo_path),
                         version |-> VERSION,
                         installed_at |-> r.clock,
                         last_updated_at |-> r.clock]
    IN  _save_installations(r, Append(_read_installations(r), installation))

add_installation(r, repo_path) ==
    LET installation == [id |-> _generate_installation_id(repo_path),
                         repo_path |-> _normalize_path(repo_path),
                         version |-> VERSION,
                         installed_at |-> r.clock,
                         last_updated_at |-> r.clock]
    IN  _save_installations(r, SetItem(_read_installations(r), installation))

\* the record, or nothing for {}
get_installation(r, repo_path) ==
    LET installations == _read_installations(r)
        at == KeyAt(installations, _generate_installation_id(repo_path))
    IN  IF at = {} THEN <<>> ELSE <<installations[CHOOSE i \in at : TRUE]>>

\* Path(repo_path).exists()
exists(r, repo_path) == repo_path \in r.disk

get_all_installations(r) ==
    SelectSeq(_read_installations(r), LAMBDA info : exists(r, info.repo_path))

remove_installation(r, repo_path) ==
    LET installations == _read_installations(r)
        installation_id == _generate_installation_id(repo_path)
    IN  IF KeyAt(installations, installation_id) # {}
        THEN _save_installations(r, DelItem(installations, installation_id))
        ELSE r

\* the paths the callers pass: /a, /b, /b/../a, /a/b, and the directory of
\* the root whose name is a, a backslash, b
RawPaths ==
    {<< <<"a">> >>, << <<"b">> >>, << <<"b">>, DOTDOT, <<"a">> >>,
     << <<"a">>, <<"b">> >>, << <<"a", BS, "b">> >>}

\* the directories there can be, as the operating system names them
Dirs == {str(resolve(p)) : p \in RawPaths}

\* the directory that holds d, the root being <<>>
Parent(d) ==
    LET slashes == {i \in 1..Len(d) : d[i] = SLASH}
    IN  SubSeq(d, 1, (CHOOSE i \in slashes : \A j \in slashes : j <= i) - 1)

Closed(disk) == \A d \in disk : Parent(d) = <<>> \/ Parent(d) \in disk

RegistryInit ==
    /\ package_json = PkgAbsent
    /\ husky_dir = FALSE
    /\ git_hook = NoFile
    /\ husky_hook = NoFile
    /\ backups = <<>>
    /\ now = 0
    /\ last = NoCall
    /\ n_ops = 0
    /\ race = NoRace
    /\ conf = NoConf
    /\ origin = NoFile
    /\ fn = NoFn
    /\ detected = NoDetect
    /\ batch = NoBatch
    /\ cmd = NoCmd
    /\ \E file \in {"absent", "unparsable"}, disk \in SUBSET Dirs :
          /\ Closed(disk)
          /\ registry = Registry(file, disk)

RegistryStep(r) ==
    /\ registry' = r
    /\ UNCHANGED <<hook_vars, fn, detected, batch, cmd, conf, race>>

\* a call that changes the registry, at the next tick of the clock
Changed(r, op, repo_path) ==
    [r EXCEPT !.clock = @ + 1, !.query = NoQuery,
              !.last_op = Put(@, _normalize_path(repo_path), op)]

AddInstallation ==
    /\ registry.clock < MaxRegOps
    /\ \E repo_path \in RawPaths :
          RegistryStep(Changed(add_installation(registry, repo_path),
                               "add", repo_path))

RemoveInstallation ==
    /\ registry.clock < MaxRegOps
    /\ \E repo_path \in RawPaths :
          RegistryStep(Changed(remove_installation(registry, repo_path),
                               "remove", repo_path))

GetInstallation ==
    \E repo_path \in RawPaths :
        RegistryStep([registry EXCEPT !.query =
            [op |-> "get", arg |-> repo_path,
             out |-> get_installation(registry, repo_path)]])

GetAllInstallations ==
    RegistryStep([registry EXCEPT !.query =
        [op |-> "get_all", arg |-> <<>>, out |-> get_all_installations(registry)]])

\* the user removes a directory with all it holds, or creates one
RemoveDir ==
    /\ registry.clock < MaxRegOps
    /\ \E d \in registry.disk :
          RegistryStep([registry EXCEPT
              !.disk = {e \in @ : e # d /\ Parent(e) # d},
              !.clock = @ + 1, !.query = NoQuery])

MakeDir ==
    /\ registry.clock < MaxRegOps
    /\ \E d \in Dirs \ registry.disk :
          /\ Parent(d) = <<>> \/ Parent(d) \in registry.disk
          /\ RegistryStep([registry EXCEPT !.disk = @ \cup {d},
                                           !.clock = @ + 1, !.query = NoQuery])

RegistryNext ==
    \/ AddInstallation
    \/ RemoveInstallation
    \/ GetInstallation
    \/ GetAllInstallations
    \/ RemoveDir
    \/ MakeDir

SpecRegistry == RegistryInit /\ [][RegistryNext]_vars

\* The registry file stops being readable while it holds records: its
\* permissions change (read_text raises) or an edit breaks its syntax
\* (tomli.loads raises).  The records written in it are still in the file.
Damage ==
    /\ registry.file = "valid"
    /\ registry.records # <<>>
    /\ RegistryStep([registry EXCEPT !.file = "unparsable", !.query = NoQuery])

RegistryFaultsNext ==
    \/ AddInstallation
    \/ RemoveInstallation
    \/ Damage

SpecRegistryFaults == RegistryInit /\ [][RegistryFaultsNext]_vars

-----------------------------------------------------------------------------
(* add_installation in two processes.  The call is two steps on the shared  *)
(* file: _read_installations, then the update of the dict that was read and *)
(* _save_installations.                                                     *)

add_installation_save_reread(r, installation_info, repo_path) ==
    LET installation == [id |-> _generate_installation_id(repo_path),
                         repo_path |-> _normalize_path(repo_path),
                         version |-> VERSION,
                         installed_at |-> r.clock,
                         last_updated_at |-> r.clock]
    IN  _save_installations(r, SetItem(_read_installations(r), installation))

\* add_installation after its _read_installations returned installation_info
add_installation_save(r, installation_info, repo_path) ==
    LET installation == [id |-> _generate_installation_id(repo_path),
                         repo_path |-> _normalize_path(repo_path),
                         version |-> VERSION,
                         installed_at |-> r.clock,
                         last_updated_at |-> r.clock]
    IN  _save_installations(r, SetItem(installation_info, installation))

\* the file before the two calls: missing, or with the record of one
\* repository
RaceFiles ==
    {Registry("absent", {})}
        \cup {add_installation(Registry("absent", {}), q) : q \in RawPaths}

RaceInit ==
    /\ package_json = PkgAbsent
    /\ husky_dir = FALSE
    /\ git_hook = NoFile
    /\ husky_hook = NoFile
    /\ backups = <<>>
    /\ now = 0
    /\ last = NoCall
    /\ n_ops = 0
    /\ conf = NoConf
    /\ origin = NoFile
    /\ fn = NoFn
    /\ detected = NoDetect
    /\ batch = NoBatch
    /\ cmd = NoCmd
    /\ registry = NoRegistry
    /\ \E reg \in RaceFiles, repo_paths \in [Procs -> RawPaths] :
          /\ \A p, q \in Procs :
                p # q => _normalize_path(repo_paths[p]) # _normalize_path(repo_paths[q])
          /\ \A p \in Procs, i \in 1..Len(reg.records) :
                reg.records[i].repo_path # _normalize_path(repo_paths[p])
          /\ race = Race([reg EXCEPT !.clock = 1], repo_paths)

RaceStep(r) ==
    /\ race' = r
    /\ UNCHANGED <<hook_vars, fn, detected, batch, cmd, conf, registry>>

\* installation_info = self._read_installations()
add_installation_read ==
    \E p \in Procs :
        /\ race.procs[p].pc = "read"
        /\ RaceStep([race EXCEPT
               !.procs[p].pc = "save",
               !.procs[p].installation_info = _read_installations(race.reg),
               !.procs[p].seen = Len(race.saved)])

\* the rest of add_installation
add_installation_write ==
    \E p \in Procs :
        /\ race.procs[p].pc = "save"
        /\ RaceStep([race EXCEPT
               !.procs[p].pc = "done",
               !.reg = [add_installation_save(race.reg,
                                              race.procs[p].installation_info,
                                              race.procs[p].repo_path)
                           EXCEPT !.clock = @ + 1],
               !.saved = Append(@, p)])

RaceNext == add_installation_read \/ add_installation_write

SpecRace == RaceInit /\ [][RaceNext]_vars

-----------------------------------------------------------------------------
(* load_config (utils/config_utils.py)                                     *)
(*                                                                         *)
(* A line of a config file is a sequence of pieces of text: a key or a     *)
(* value stands for its letters; "=", "#", " " and "\n" are themselves.    *)
(* A dict is a function on the set of its keys.                            *)

MaxLoads == 2

EQ == "="
HASH == "#"

\* None: the value that is no string
None == <<"<None>">>

ENABLE_COMMIT_ASSISTANT == <<"ENABLE_COMMIT_ASSISTANT">>
USE_MODEL == <<"USE_MODEL">>
GEMINI_API_KEY == <<"GEMINI_API_KEY">>
COMMIT_STYLE == <<"COMMIT_STYLE">>
ConfigKey == {ENABLE_COMMIT_ASSISTANT, USE_MODEL, GEMINI_API_KEY, COMMIT_STYLE}

\* the default configuration; True is the text "True" once str() is applied
\* to it on its way to os.environ
DefaultConfig ==
    [key \in ConfigKey |->
        CASE key = ENABLE_COMMIT_ASSISTANT -> <<"True">>
          [] key = USE_MODEL -> <<"gemini-2.5-flash">>
          [] key = GEMINI_API_KEY -> None
          [] key = COMMIT_STYLE -> <<"conventional">>]

\* os.getenv(key)
getenv(environ, key) == IF key \in DOMAIN environ THEN environ[key] ELSE None

\* load_dotenv(dotenv_path): a variable of the file is set in os.environ
\* unless os.environ has it already (override=False)
load_dotenv(environ, dotenv) ==
    [key \in (DOMAIN environ) \cup (DOMAIN dotenv) |->
        IF key \in DOMAIN environ THEN environ[key] ELSE dotenv[key]]

\* the loop over the lines of the project config file, from line i on; a line
\* without "=" makes the unpacking of split("=", 1) raise ValueError
RECURSIVE load_lines(_, _, _)
load_lines(config, lines, i) ==
    IF i > Len(lines) THEN [config |-> config, raised |-> FALSE]
    ELSE LET line == Strip(lines[i])
             eq == Find(line, <<EQ>>, 1)
         IN  IF line # <<>> /\ ~MatchAt(line, <<HASH>>, 1)
             THEN IF eq = 0 THEN [config |-> config, raised |-> TRUE]
                  ELSE load_lines(Put(config, Strip(SubSeq(line, 1, eq - 1)),
                                      Strip(Tail_(line, eq + 1))),
                                  lines, i + 1)
             ELSE load_lines(config, lines, i + 1)

_load_config_from_config_file(config, config_file) ==
    IF ~config_file.exists THEN [config |-> config, raised |-> FALSE]
    ELSE load_lines(config, config_file.lines, 1)

\* load_config(repo_root) in the process c: os.environ after the call
load_config(c, repo_root) ==
    LET loaded == load_dotenv(c.environ, c.dotenv)
        config == [key \in ConfigKey |->
                      IF getenv(loaded, key) # None THEN getenv(loaded, key)
                      ELSE DefaultConfig[key]]
        merged == _load_config_from_config_file(config, c.files[repo_root]).config
        set == {key \in DOMAIN merged : merged[key] # None}
    IN  [key \in (DOMAIN loaded) \cup set |->
            IF key \in set THEN merged[key] ELSE loaded[key]]

\* the lines a project config file is made of
ConfigLines ==
    { <<HASH, SP, COMMIT_STYLE[1], EQ, "angular", NL>>,
      <<COMMIT_STYLE[1], SP, EQ, SP, "emoji", NL>>,
      <<COMMIT_STYLE[1], EQ, "custom", NL>>,
      <<USE_MODEL[1], EQ, "gemini-pro", NL>>,
      <<"emoji", NL>> }

ConfigFiles ==
    {NoConfigFile}
        \cup {[exists |-> TRUE, lines |-> l] :
                l \in {<<>>} \cup {<<a>> : a \in ConfigLines}
                             \cup {<<a, b>> : a, b \in ConfigLines}}

\* what the environment of the process and the file .env of the package set
Environs == {<<>>, [key \in {COMMIT_STYLE} |-> <<"angular">>]}
DotEnvs ==
    {<<>>, [key \in {COMMIT_STYLE} |-> <<"conventional">>],
     [key \in {USE_MODEL, GEMINI_API_KEY} |->
         IF key = USE_MODEL THEN <<"gemini-exp">> ELSE <<"secret">>]}

ConfigInit ==
    /\ package_json = PkgAbsent
    /\ husky_dir = FALSE
    /\ git_hook = NoFile
    /\ husky_hook = NoFile
    /\ backups = <<>>
    /\ now = 0
    /\ last = NoCall
    /\ n_ops = 0
    /\ race = NoRace
    /\ origin = NoFile
    /\ fn = NoFn
    /\ detected = NoDetect
    /\ batch = NoBatch
    /\ cmd = NoCmd
    /\ registry = NoRegistry
    /\ \E environ \in Environs, dotenv \in DotEnvs,
          files \in [Repos -> ConfigFiles] :
          conf = Conf(environ, dotenv, files)

LoadConfig ==
    /\ conf.calls < MaxLoads
    /\ \E repo_root \in Repos :
          conf' = [conf EXCEPT !.environ = load_config(conf, repo_root),
                               !.calls = @ + 1, !.repo_root = repo_root]
    /\ UNCHANGED <<hook_vars, fn, detected, batch, cmd, registry, race>>

ConfigNext == LoadConfig

SpecConfig == ConfigInit /\ [][ConfigNext]_vars

-----------------------------------------------------------------------------
(* Properties of install_hook and update_hook *)

\* the target hook file in the current state
Hook == Target(Fs)

\* the indices where p occurs in t, overlapping occurrences included
Occurrences(t, p) == {i \in 1..Len(t) : MatchAt(t, p, i)}

Updated == last.op = "update"
Installed == last.op = "install"

\* C1: a second update_hook(c) right after an update_hook(c) leaves the hook
\* file byte-identical and creates no backup file.
C1_UpdateIdempotent ==
    [][(/\ Updated
        /\ n_ops' = n_ops + 1
        /\ last'.op = "update"
        /\ last'.arg = last.arg)
       => (Hook' = Hook /\ ~last'.copied)]_vars

\* one well-formed region and no other marker: the start marker occurs once,
\* followed by a newline, and the end marker once, after a newline, later on
OneRegion(t) ==
    /\ Cardinality(Occurrences(t, COMMIT_ASSISTANT_MARKER_START)) = 1
    /\ Cardinality(Occurrences(t, COMMIT_ASSISTANT_MARKER_END)) = 1
    /\ \E i \in Occurrences(t, COMMIT_ASSISTANT_MARKER_START \o <<NL>>),
          j \in Occurrences(t, <<NL>> \o COMMIT_ASSISTANT_MARKER_END) :
          i + Len(COMMIT_ASSISTANT_MARKER_START) + 1 <= j

NoRegionMarker(t) ==
    /\ ~Contains(t, COMMIT_ASSISTANT_MARKER_START)
    /\ ~Contains(t, COMMIT_ASSISTANT_MARKER_END)

MarkerFree(c) == NoRegionMarker(c) /\ ~Contains(c, OLD_MARKER)

\* C2: from a hook file that is absent, holds no region marker or holds one
\* well-formed region, and with contents free of marker literals, every
\* install_hook or update_hook that returns normally leaves a file with the
\* start marker exactly once and the end marker exactly once.
C2_MarkerUniqueness ==
    (/\ last.op # "none"
     /\ ~last.raised
     /\ \A c \in Contents : MarkerFree(c)
     /\ (~origin.exists \/ NoRegionMarker(origin.text) \/ OneRegion(origin.text)))
    => /\ Cardinality(Occurrences(Hook.text, COMMIT_ASSISTANT_MARKER_START)) = 1
       /\ Cardinality(Occurrences(Hook.text, COMMIT_ASSISTANT_MARKER_END)) = 1

\* C3: after update_hook(c) returns normally on an existing hook file, the
\* file contains START "\n" c "\n" END with c verbatim.
C3_UpdateInsertsVerbatim ==
    (Updated /\ last.before.exists /\ ~last.raised)
    => Contains(Hook.text, Block(last.arg))

\* C4: after update_hook(c) on a hook file classified OLD, the file is
\* classified NEW, holds c between the markers and holds no legacy marker.
C4_UpdateOfLegacy ==
    (/\ Updated
     /\ last.before.exists
     /\ _detect_hook_version(last.before.text) = "old")
    => /\ _detect_hook_version(Hook.text) = "new"
       /\ Contains(Hook.text, Block(last.arg))
       /\ ~Contains(Hook.text, OLD_MARKER)

\* C5: update_hook(c) on a NEW-format file whose region already holds c
\* writes nothing: text and permission bits stay, and no backup is made.
C5_NoOpUpdate ==
    (/\ Updated
     /\ last.before.exists
     /\ OneRegion(last.before.text)
     /\ Contains(last.before.text, Block(last.arg)))
    => (Hook = last.before /\ ~last.copied)

StartsWith(t, p) == MatchAt(t, p, 1)

\* C6: after install_hook on an existing file C with neither the
\* start marker nor the legacy marker, the file contains C, or C without its
\* one leading shebang line.
C6_InstallKeepsContent ==
    (/\ Installed
     /\ last.before.exists
     /\ ~Contains(last.before.text, COMMIT_ASSISTANT_MARKER_START)
     /\ ~Contains(last.before.text, OLD_MARKER))
    => \/ Contains(Hook.text, last.before.text)
       \/ /\ StartsWith(last.before.text, SHEBANG_LINE)
          /\ Contains(Hook.text, Tail_(last.before.text, Len(SHEBANG_LINE) + 1))

\* the text before the one start marker, and the text after the one end marker
BeforeRegion(t) ==
    SubSeq(t, 1, (CHOOSE i \in Occurrences(t, COMMIT_ASSISTANT_MARKER_START) : TRUE) - 1)
AfterRegion(t) ==
    Tail_(t, (CHOOSE j \in Occurrences(t, COMMIT_ASSISTANT_MARKER_END) : TRUE)
             + Len(COMMIT_ASSISTANT_MARKER_END))

\* C7: update_hook on a file with one well-formed region keeps the text before
\* the start marker and the text after the end marker byte for byte: the new
\* text is that prefix, a span from a start marker to an end marker, and that
\* suffix.
C7_UpdateKeepsOutside ==
    (Updated /\ last.before.exists /\ OneRegion(last.before.text))
    => LET pre == BeforeRegion(last.before.text)
           post == AfterRegion(last.before.text)
           t == Hook.text
           mid == SubSeq(t, Len(pre) + 1, Len(t) - Len(post))
       IN  /\ Len(t) >= Len(pre) + Len(post)
           /\ SubSeq(t, 1, Len(pre)) = pre
           /\ Tail_(t, Len(t) - Len(post) + 1) = post
           /\ StartsWith(mid, COMMIT_ASSISTANT_MARKER_START)
           /\ EndsWith(mid, COMMIT_ASSISTANT_MARKER_END)

\* C10: when update_hook changes the text of an existing hook file, a backup
\* holding the original text exists afterwards and the file has mode 0755.
C10_BackupBeforeWrite ==
    (Updated /\ last.before.exists /\ Hook.text # last.before.text)
    => /\ last.copied
       /\ \E ts \in DOMAIN backups : backups[ts] = last.before.text
       /\ Hook.mode = MODE_EXEC

\* C11: an install_hook or update_hook call creates a backup file if and only
\* if it changes the content of a hook file that existed before the call.
C11_BackupsOnlyOnModification ==
    last.op # "none"
    => (last.copied <=> (last.before.exists /\ Hook.text # last.before.text))

\* C12: a backup file, once created, is never deleted and its content never
\* changes, whatever install_hook and update_hook calls follow (two calls in
\* the same second included).
C12_BackupsOnlyGrow ==
    [][\A ts \in DOMAIN backups :
          ts \in DOMAIN backups' /\ backups'[ts] = backups[ts]]_vars

FreshGitInstall == Installed /\ ~_detect_husky(Fs) /\ ~last.before.exists

\* C13: install_hook(c) in a repository without husky and without a hook file
\* creates the git hook file with the text "#!/bin/sh\n\n" START "\n" c "\n"
\* END "\n" and mode 0755, and creates no backup.
C13_FreshGitInstall ==
    FreshGitInstall
    => /\ git_hook = FileOf(SHEBANG_LINE \o <<NL>> \o COMMIT_ASSISTANT_MARKER_START
                            \o <<NL>> \o last.arg \o <<NL>>
                            \o COMMIT_ASSISTANT_MARKER_END \o <<NL>>, MODE_EXEC)
       /\ ~last.copied
       /\ backups = <<>>

\* a fresh git install of a content with backslashes
C13_Witness ==
    /\ FreshGitInstall
    /\ Contains(last.arg, <<BS>>)
    /\ git_hook.exists
    /\ ~husky_hook.exists

\* C14: install_hook(c) on an existing hook file that holds the start marker
\* leaves the content of the file byte-identical, in the git and in the husky
\* variant, for every c.
C14_InstallNoOpOnInstalled ==
    (/\ Installed
     /\ last.before.exists
     /\ Contains(last.before.text, COMMIT_ASSISTANT_MARKER_START))
    => Hook.text = last.before.text

UpdateWithoutFile == Updated /\ ~last.before.exists

\* C15: update_hook(c) without a target hook file does not fail; it creates
\* the file a fresh install creates (husky: the region alone; git: the shebang
\* line, a blank line and the region), with c between the markers, mode 0755
\* and no legacy marker.
C15_UpdateWithoutFile ==
    UpdateWithoutFile
    => /\ ~last.raised
       /\ Hook = FileOf((IF _detect_husky(Fs) THEN <<>> ELSE SHEBANG_LINE \o <<NL>>)
                        \o Block(last.arg) \o <<NL>>, MODE_EXEC)
       /\ ~Contains(Hook.text, OLD_MARKER)

\* update_hook has created the git hook file, with a content that re.sub
\* would have rejected
C15_Witness ==
    /\ UpdateWithoutFile
    /\ ~_detect_husky(Fs)
    /\ ~TemplateOk(last.arg)
    /\ Contains(git_hook.text, Block(last.arg))

-----------------------------------------------------------------------------
(* Properties of _detect_husky *)

\* package.json parses as JSON and lists husky under devDependencies
ListsHusky(pj) ==
    /\ pj.kind = "object"
    /\ pj.has_dev
    /\ pj.dev.t \in {"object", "array"}
    /\ HUSKY \in pj.dev.names

\* C17: _detect_husky returns true if .husky exists; otherwise true exactly
\* when package.json exists, parses as JSON and lists husky under
\* devDependencies; otherwise (also for an unreadable or malformed
\* package.json) false.
C17_HuskyDetection ==
    detected.called
    => detected.value = (detected.husky_dir \/ ListsHusky(detected.package_json))

-----------------------------------------------------------------------------
(* Properties of the update command *)

\* the items of l at the positions of l that are not in `skip`, in order
RECURSIVE Except(_, _, _)
Except(l, skip, from) ==
    IF from > Len(l) THEN <<>>
    ELSE (IF from \in skip THEN <<>> ELSE <<l[from]>>) \o Except(l, skip, from + 1)

\* C18: update --all-repo attempts every repository of the list once, in list
\* order, whatever updates raise; add_installation is called for exactly the
\* repositories whose update succeeded; the exit code is 0.
C18_BatchIsolation ==
    (batch.all_repo /\ batch.pc = "done")
    => /\ batch.attempted = batch.installations
       /\ batch.refreshed = Except(batch.installations, batch.failed, 1)
       /\ batch.exit_code = <<0>>

\* a run over three repositories in which the first and the last update
\* raised and the second succeeded
C18_Witness ==
    /\ batch.all_repo
    /\ batch.pc = "done"
    /\ Len(batch.installations) >= 3
    /\ batch.failed = {1, 3}
    /\ Len(batch.refreshed) = 1

-----------------------------------------------------------------------------
(* Properties of the commit command *)

\* C19: the commit command exits 2 when generation returns nothing or an
\* exception occurs; otherwise 1 when there are no staged files, the user
\* chooses cancel, aborts the edit or has pressed Ctrl+C; otherwise (the
\* assistant is disabled, or the user accepted or edited and confirmed a
\* message) 0.
C19_CommitExitCodes ==
    cmd.pc = "done"
    => cmd.exit_code =
         <<IF cmd.cause \in {"no_response", "exception"} THEN ERROR
           ELSE IF \/ cmd.cause \in {"no_staged_files", "cancel_operation",
                                     "edit_aborted", "interrupt"}
                   \/ cmd.ctrl_c
           THEN CANCEL
           ELSE SUCCESS>>

-----------------------------------------------------------------------------
(* Properties of the registry *)

\* the normalized paths whose last add or remove was an add
Added == {p \in DOMAIN registry.last_op : registry.last_op[p] = "add"}

-----------------------------------------------------------------------------
(* Properties of the functions on texts *)

Detected == fn.op = "detect"

\* C16: _detect_hook_version returns NEW for every text with the start marker
\* (also when it holds the legacy marker), OLD for every other text with the
\* legacy marker, and NOT_INSTALLED for the rest.
C16_VersionDetection ==
    Detected
    => LET has_start == Occurrences(fn.in, COMMIT_ASSISTANT_MARKER_START) # {}
           has_old == Occurrences(fn.in, OLD_MARKER) # {}
       IN  fn.out = <<IF has_start THEN "new"
                       ELSE IF has_old THEN "old" ELSE "none">>

\* the detector has classified a text that holds the legacy marker before the
\* start marker
C16_Witness ==
    /\ Detected
    /\ Contains(fn.in, OLD_MARKER \o COMMIT_ASSISTANT_MARKER_START)
    /\ fn.out = <<"new">>

Migrated == fn.op = "migrate"

\* the legacy payload of t: the text after the first newline that follows the
\* first legacy marker, stripped; empty when there is no such newline
LegacyPayload(t) ==
    LET at == {i \in 1..Len(t) : MatchAt(t, OLD_MARKER, i)}
        first == CHOOSE i \in at : \A j \in at : i <= j
        nls == {k \in first..Len(t) : t[k] = NL}
        nl == CHOOSE k \in nls : \A j \in nls : k <= j
    IN  IF at = {} \/ nls = {} THEN <<>> ELSE Strip(Tail_(t, nl + 1))

\* C8 as claimed: for an OLD text with a non-empty legacy payload P,
\* _migrate_to_new_format returns a text with P between the markers and with
\* no legacy marker anywhere.
C8_MigrationSafety ==
    (/\ Migrated
     /\ _detect_hook_version(fn.in) = "old"
     /\ LegacyPayload(fn.in) # <<>>)
    => /\ Contains(fn.out, Block(LegacyPayload(fn.in)))
       /\ ~Contains(fn.out, OLD_MARKER)

\* C8 amended: for an OLD text with a non-empty legacy payload P,
\* _migrate_to_new_format returns a text that ends with the region holding P
\* and in which the legacy marker occurs only inside P, as often as in P: not
\* at all when P holds no legacy marker.
C8_MigrationSafetyOutsidePayload ==
    (/\ Migrated
     /\ _detect_hook_version(fn.in) = "old"
     /\ LegacyPayload(fn.in) # <<>>)
    => /\ EndsWith(fn.out, Block(LegacyPayload(fn.in)) \o <<NL>>)
       /\ Cardinality(Occurrences(fn.out, OLD_MARKER))
            = Cardinality(Occurrences(LegacyPayload(fn.in), OLD_MARKER))

\* a legacy section after user text has been migrated, and the output holds
\* no legacy marker
C8_Witness ==
    /\ Migrated
    /\ _detect_hook_version(fn.in) = "old"
    /\ LegacyPayload(fn.in) # <<>>
    /\ ~StartsWith(fn.in, OLD_MARKER)
    /\ ~Contains(fn.out, OLD_MARKER)
    /\ Contains(fn.out, Block(LegacyPayload(fn.in)))

\* C9 as claimed: _migrate_to_new_format returns every NEW text unchanged,
\* and its result for every OLD text is classified NEW.
C9_MigrationRoundTrip ==
    Migrated
    => /\ (_detect_hook_version(fn.in) = "new" => fn.out = fn.in)
       /\ (_detect_hook_version(fn.in) = "old"
             => _detect_hook_version(fn.out) = "new")

\* C9 amended: _migrate_to_new_format returns unchanged every NEW text that
\* holds no legacy marker (a NEW text that also holds the legacy marker is
\* rewritten), and its result for every OLD text is classified NEW.
C9_MigrationRoundTripWithoutLegacy ==
    Migrated
    => /\ (/\ _detect_hook_version(fn.in) = "new"
           /\ ~Contains(fn.in, OLD_MARKER)
           => fn.out = fn.in)
       /\ (_detect_hook_version(fn.in) = "old"
             => _detect_hook_version(fn.out) = "new")

\* the migrator has been applied to a NEW text with a region and user text
C9_Witness ==
    /\ Migrated
    /\ _detect_hook_version(fn.in) = "new"
    /\ ~Contains(fn.in, OLD_MARKER)
    /\ OneRegion(fn.in)
    /\ BeforeRegion(fn.in) # <<>>
    /\ fn.out = fn.in

-----------------------------------------------------------------------------
(* Properties of load_config *)

\* the lines of a project config file that set the key: neither blank nor a
\* comment, with the key before the first "="
SettingLines(config_file, key) ==
    {i \in 1..Len(config_file.lines) :
        LET line == Strip(config_file.lines[i])
            eq == Find(line, <<EQ>>, 1)
        IN  /\ line # <<>>
            /\ ~MatchAt(line, <<HASH>>, 1)
            /\ eq # 0
            /\ Strip(SubSeq(line, 1, eq - 1)) = key}

\* the value the last of these lines gives the key
SettingOf(config_file, key) ==
    LET I == SettingLines(config_file, key)
        i == CHOOSE i \in I : \A j \in I : j <= i
        line == Strip(config_file.lines[i])
    IN  Strip(Tail_(line, Find(line, <<EQ>>, 1) + 1))

\* project file > environment, then .env > default
Precedence(c, repo_root, key) ==
    IF c.files[repo_root].exists /\ SettingLines(c.files[repo_root], key) # {}
    THEN SettingOf(c.files[repo_root], key)
    ELSE IF key \in DOMAIN c.started THEN c.started[key]
    ELSE IF key \in DOMAIN c.dotenv THEN c.dotenv[key]
    ELSE DefaultConfig[key]

\* C21: after load_config(repo), every configuration key has the value of
\* the repository's project config file if the key is set there, otherwise
\* the one of the environment/.env, otherwise the default; also after an
\* earlier load_config for another repository in the same process.
C21_ConfigPrecedence ==
    conf.calls > 0 =>
        \A key \in ConfigKey :
            getenv(conf.environ, key) = Precedence(conf, conf.repo_root, key)

-----------------------------------------------------------------------------
(* Properties of the functions on texts *)

\* the spans the update path replaces in t: a start marker and a newline,
\* any text, a newline and an end marker
Spans(t) ==
    {s \in Occurrences(t, COMMIT_ASSISTANT_MARKER_START \o <<NL>>)
           \X Occurrences(t, <<NL>> \o COMMIT_ASSISTANT_MARKER_END) :
        s[1] + Len(COMMIT_ASSISTANT_MARKER_START) + 1 <= s[2]}

\* C22: every text _detect_hook_version classifies as NEW holds the start
\* marker and the end marker, and the update path finds a span to replace.
C22_NewHasBothMarkers ==
    (Detected /\ fn.out = <<"new">>)
    => /\ Occurrences(fn.in, COMMIT_ASSISTANT_MARKER_START) # {}
       /\ Occurrences(fn.in, COMMIT_ASSISTANT_MARKER_END) # {}
       /\ Spans(fn.in) # {}

-----------------------------------------------------------------------------
(* Further properties of install_hook and update_hook *)

\* the text holds the legacy marker and the new start marker
BothFormats(t) ==
    /\ Occurrences(t, OLD_MARKER) # {}
    /\ Occurrences(t, COMMIT_ASSISTANT_MARKER_START) # {}

\* C23: from a hook file that is absent, marker-free, OLD or NEW, but does
\* not hold both markers, no sequence of install_hook and update_hook calls
\* leads to a hook file with both the legacy marker and the start marker.
C23_OneFormat ==
    ~BothFormats(origin.text) => ~BothFormats(Hook.text)

\* the index of the first legacy marker of t
FirstLegacy(t) ==
    CHOOSE i \in Occurrences(t, OLD_MARKER) :
        \A j \in Occurrences(t, OLD_MARKER) : i <= j

\* t without the whitespace at its end
WithoutTrailingWhitespace(t) ==
    IF \A i \in 1..Len(t) : t[i] \in Whitespace THEN <<>>
    ELSE SubSeq(t, 1, CHOOSE i \in 1..Len(t) :
                        /\ t[i] \notin Whitespace
                        /\ \A j \in (i + 1)..Len(t) : t[j] \in Whitespace)

\* C24: for a text with the legacy marker _migrate_to_new_format returns
\* prefix + "\n\n" + START + "\n" + payload + "\n" + END + "\n", the prefix
\* being the text before the first legacy marker without its trailing
\* whitespace and the payload the extracted legacy payload; a text without
\* the legacy marker is returned unchanged.
C24_MigratorOutput ==
    Migrated
    => IF Occurrences(fn.in, OLD_MARKER) = {} THEN fn.out = fn.in
       ELSE fn.out
              = WithoutTrailingWhitespace(SubSeq(fn.in, 1, FirstLegacy(fn.in) - 1))
                \o <<NL, NL>> \o COMMIT_ASSISTANT_MARKER_START \o <<NL>>
                \o LegacyPayload(fn.in) \o <<NL>>
                \o COMMIT_ASSISTANT_MARKER_END \o <<NL>>

\* a text with user text and whitespace before the legacy marker and a
\* payload after it has been migrated
C24_Witness ==
    /\ Migrated
    /\ Occurrences(fn.in, OLD_MARKER) # {}
    /\ FirstLegacy(fn.in) > 2
    /\ fn.in[FirstLegacy(fn.in) - 1] \in Whitespace
    /\ WithoutTrailingWhitespace(SubSeq(fn.in, 1, FirstLegacy(fn.in) - 1)) # <<>>
    /\ LegacyPayload(fn.in) # <<>>
    /\ fn.out # fn.in

Extracted == fn.op = "extract"

\* the text after the first newline at or after index i of t; nothing when
\* there is no such newline
AfterNewline(t, i) ==
    LET nls == {k \in i..Len(t) : t[k] = NL}
    IN  IF nls = {} THEN <<>>
        ELSE Tail_(t, (CHOOSE k \in nls : \A j \in nls : k <= j) + 1)

\* t without the whitespace at its start and at its end
Stripped(t) ==
    LET black == {i \in 1..Len(t) : t[i] \notin Whitespace}
    IN  IF black = {} THEN <<>>
        ELSE SubSeq(t, CHOOSE i \in black : \A j \in black : i <= j,
                       CHOOSE i \in black : \A j \in black : j <= i)

\* C25: _extract_old_hook_content returns what follows the first newline
\* after the first legacy marker, stripped of leading and trailing
\* whitespace; the empty string without a marker, without a newline after
\* the marker, and when nothing follows the marker's line.
C25_LegacyExtraction ==
    Extracted
    => IF Occurrences(fn.in, OLD_MARKER) = {} THEN fn.out = <<>>
       ELSE fn.out = Stripped(AfterNewline(fn.in, FirstLegacy(fn.in)))

\* a payload with whitespace around it has been extracted from a text with
\* user text before the legacy marker
C25_Witness ==
    /\ Extracted
    /\ Occurrences(fn.in, OLD_MARKER) # {}
    /\ FirstLegacy(fn.in) > 1
    /\ fn.out # <<>>
    /\ fn.out # AfterNewline(fn.in, FirstLegacy(fn.in))

\* the indices of t where a shebang line starts: "#!" at the start of a line
ShebangLines(t) ==
    {i \in 1..(Len(t) - 1) :
        /\ t[i] = "#" /\ t[i + 1] = "!"
        /\ (i = 1 \/ t[i - 1] = NL)}

\* C26: install_hook onto an existing marker-free git hook file leaves a file
\* with exactly one shebang line, "#!/bin/sh", as its first line (so no
\* shebang line of the original content is left in the rest), and with the
\* managed region as its last part.
C26_ShebangNormalization ==
    (/\ Installed
     /\ ~_detect_husky(Fs)
     /\ last.before.exists
     /\ MarkerFree(last.before.text))
    => /\ StartsWith(Hook.text, SHEBANG_LINE)
       /\ ShebangLines(Hook.text) = {1}
       /\ EndsWith(Hook.text, Block(last.arg) \o <<NL>>)

Replaced == fn.op = "replace"

\* _replace_commit_assistant_section was given a text without start marker
Appended == Replaced /\ Occurrences(fn.in, COMMIT_ASSISTANT_MARKER_START) = {}

\* t without the newlines at its end
WithoutTrailingNewlines(t) ==
    IF \A i \in 1..Len(t) : t[i] = NL THEN <<>>
    ELSE SubSeq(t, 1, CHOOSE i \in 1..Len(t) :
                        /\ t[i] # NL
                        /\ \A j \in (i + 1)..Len(t) : t[j] = NL)

\* a blank line, START "\n" payload "\n" END, and a final newline
AppendedBlock(payload) ==
    <<NL>> \o COMMIT_ASSISTANT_MARKER_START \o <<NL>> \o payload \o <<NL>>
           \o COMMIT_ASSISTANT_MARKER_END \o <<NL>>

\* C27 as claimed: for a text without start marker the result is the text
\* normalized to end in exactly one newline, then a blank line, the block and
\* a final newline, and the original text is a prefix of the result.
C27_AppendOnUpdate ==
    Appended
    => /\ fn.out = WithoutTrailingNewlines(fn.in) \o <<NL>> \o AppendedBlock(fn.arg)
       /\ StartsWith(fn.out, fn.in)

\* C27 amended: for a text without start marker the result is the text,
\* with a newline added only when it does not end with one (a text that ends
\* with several newlines keeps them all), then a blank line, the block and a
\* final newline; the original text is a prefix of the result.
C27_AppendOnUpdateKeepsNewlines ==
    Appended
    => /\ fn.out = (IF fn.in # <<>> /\ fn.in[Len(fn.in)] = NL
                    THEN fn.in ELSE fn.in \o <<NL>>) \o AppendedBlock(fn.arg)
       /\ StartsWith(fn.out, fn.in)

\* the block has been appended to a text that ends with two newlines, and to
\* one that ends with none
C27_Witness ==
    /\ Appended
    /\ fn.in # <<>>
    /\ fn.out = fn.in \o AppendedBlock(fn.arg)
    /\ Len(fn.in) >= 3
    /\ fn.in[Len(fn.in)] = NL
    /\ fn.in[Len(fn.in) - 1] = NL
    /\ fn.in[Len(fn.in) - 2] # NL

\* a repository of the other variant (plain git for husky, husky by its
\* directory for plain git) whose hook file is f
OtherVariant(f) ==
    IF _detect_husky(Fs)
    THEN [Fs EXCEPT !.husky_dir = FALSE, !.package_json = PkgAbsent,
                    !.git_hook = f, !.husky_hook = NoFile, !.backups = <<>>]
    ELSE [Fs EXCEPT !.husky_dir = TRUE, !.package_json = PkgAbsent,
                    !.git_hook = NoFile, !.husky_hook = f, !.backups = <<>>]

\* C28: on an existing hook file, install_hook and update_hook leave the same
\* text and make the same backup in the git variant and in the husky variant.
C28_VariantEquivalence ==
    (last.op # "none" /\ last.before.exists)
    => LET s == OtherVariant(last.before)
           r == IF Installed THEN install_hook(s, last.arg, now)
                ELSE update_hook(s, last.arg, now)
       IN  /\ Target(r).text = Hook.text
           /\ r.copied = last.copied
           /\ r.raised = last.raised

-----------------------------------------------------------------------------
(* Properties of the installation registry under faults and concurrency *)

\* the step is a call add_installation(repo_path)
IsAdd(repo_path) ==
    /\ registry'.clock = registry.clock + 1
    /\ _normalize_path(repo_path) \in DOMAIN registry'.last_op
    /\ registry'.last_op[_normalize_path(repo_path)] = "add"
    /\ registry' = Changed(add_installation(registry, repo_path), "add", repo_path)

\* the records written in the registry file
Stored(r) == {r.records[i] : i \in 1..Len(r.records)}

\* C30: add_installation(r) leaves the stored record of every other
\* repository unchanged and does not reduce the number of recorded
\* repositories, whether the registry file is missing, valid or
\* unreadable/unparsable when it is read.
C30_RegistryFrame ==
    [][\A repo_path \in RawPaths :
          IsAdd(repo_path)
          => /\ \A rec \in Stored(registry) :
                   rec.repo_path # _normalize_path(repo_path)
                   => rec \in Stored(registry')
             /\ Cardinality(Stored(registry')) >= Cardinality(Stored(registry))]_vars

\* both calls have returned
AllDone == \A p \in Procs : race.procs[p].pc = "done"

\* the two calls ran concurrently: each read the file before any save; they
\* ran one after the other when a process read after the other had saved
Concurrent == \A p \in Procs : race.procs[p].seen = 0

\* the registry file holds a record of the repository of process p
Recorded(p) ==
    \E rec \in Stored(race.reg) :
        rec.repo_path = _normalize_path(race.procs[p].repo_path)

\* C29: when two processes run add_installation for two different
\* repositories concurrently (both read before either saves) the file ends
\* with the record of the last writer only; when they run one after the
\* other it ends with both records.
C29_LostUpdate ==
    AllDone
    => IF Concurrent
       THEN \A p \in Procs : Recorded(p) <=> p = race.saved[Len(race.saved)]
       ELSE \A p \in Procs : Recorded(p)

\* two concurrent calls have returned, and the file that held the record of
\* a third repository holds that record and one of the two new ones
C29_Witness ==
    /\ AllDone
    /\ Concurrent
    /\ Cardinality({p \in Procs : Recorded(p)}) = 1
    /\ Cardinality(Stored(race.reg)) = 2

====
